---------------------------- MODULE Spec2Model ----------------------------
(* A state-machine model of src/main.py: the VAE training script.            *)
(*                                                                           *)
(* The script is one thread of control.  `pc` is its position; every action  *)
(* is one statement (or one loop-control step) of train(), test() or the     *)
(* __main__ loop.  Tensors are sequences with one entry per example.  The    *)
(* inputs are restricted to tensors whose rows are uniform (all 3072 pixels  *)
(* of an image, and all 128 latent coordinates of an example, carry the same *)
(* value), so a row is stored as that value and a sum over a row is the row  *)
(* length times the element's term.                                          *)
(*                                                                           *)
(* Numbers.  Pixel values are counted in halves (0, 1, 2 stand for 0, 0.5,   *)
(* 1.0), latent means in units, log-variances in units of ln 2.  A real      *)
(* number is a record [q, h, den] standing for (q/4 + h*ln(2)/2) / den.      *)
EXTENDS Integers, Sequences, FiniteSets

VARIABLES
    args,          \* the parsed command line (line 28)
    timestring,    \* the run's time string (line 118), a sequence of characters
    cifar_dataset, \* the images of the dataset (line 37)
    rng,           \* the state of torch's random generator (line 31)
    pc,            \* the statement the script is at
    failed,        \* "none", or the kind of exception that ended the run
    epoch,         \* the loop variable of line 119
    batch_idx,     \* enumerate index of train() (line 76)
    i,             \* enumerate index of test() (line 101)
    train_it,      \* examples train_loader's iterator has served
    test_it,       \* examples test_loader's iterator has served
    training,      \* model.training
    params,        \* the model parameters: the gradients applied so far
    grad,          \* the .grad buffers: the batches whose gradients they hold
    data,          \* the current batch
    recon_batch,   \* model(data)[0]
    mu,            \* model(data)[1]
    logvar,        \* model(data)[2]
    loss,          \* value of the last loss_function call
    recon_type,    \* the recon_type argument of the last loss_function call
    train_loss,    \* the accumulator of train()
    test_loss,     \* the accumulator of test()
    stdout,        \* the lines printed
    files,         \* the names save_image was called with, in order
    events,        \* history: the statements executed, in order
    batch_losses   \* history: the losses computed in the current call

vars == <<args, timestring, cifar_dataset, rng, pc, failed, epoch, batch_idx, i,
          train_it, test_it, training, params, grad, data, recon_batch, mu,
          logvar, loss, recon_type, train_loss, test_loss, stdout, files,
          events, batch_losses>>

-----------------------------------------------------------------------------
(* Bounds of the model *)

MaxDataset == 4

MaxBatchSize == 4

MaxEpochs == 2

MaxExamples == 2

(* Program constants *)

ImageElems == 3072

LatentDim == 128

Min(a, b) == IF a < b THEN a ELSE b

-----------------------------------------------------------------------------
(* Real numbers (q/4 + h*ln(2)/2) / den *)

Zero == [q |-> 0, h |-> 0, den |-> 1]

Add(a, b) == [q |-> a.q + b.q, h |-> a.h + b.h, den |-> 1]

Times(k, a) == [q |-> k * a.q, h |-> k * a.h, den |-> 1]

\* -0.5 * a, for a whose parts are even
NegHalf(a) == [q |-> -(a.q \div 2), h |-> -(a.h \div 2), den |-> 1]

Div(a, n) == [a EXCEPT !.den = @ * n]

RECURSIVE SumSeq(_)
SumSeq(s) == IF s = <<>> THEN Zero ELSE Add(s[1], SumSeq(Tail(s)))

-----------------------------------------------------------------------------
(* loss_function, lines 54-67 *)

\* log of a pixel value in {0, 0.5, 1}; binary_cross_entropy clamps log at -100
ClampedLog(r) ==
    CASE r = 0 -> [q |-> -400, h |-> 0, den |-> 1]
      [] r = 1 -> [q |-> 0, h |-> -2, den |-> 1]
      [] r = 2 -> Zero

\* -(x*log(r) + (1-x)*log(1-r)) for one element
BceElem(r, x) ==
    NegHalf(Add(Times(x, ClampedLog(r)), Times(2 - x, ClampedLog(2 - r))))

\* (r - x)^2 for one element
MseElem(r, x) == [q |-> (r - x) * (r - x), h |-> 0, den |-> 1]

\* F.binary_cross_entropy(recon_x, x.view(-1, 3072), reduction='sum')
BCE_term(recon_x, x) ==
    SumSeq([k \in 1..Len(x) |-> Times(ImageElems, BceElem(recon_x[k], x[k]))])

\* F.mse_loss(recon_x, x.view(-1, 3072), reduction='sum')
\* variant: reduction='mean'
MSE_mean(recon_x, x) ==
    Div(SumSeq([k \in 1..Len(x) |-> Times(ImageElems, MseElem(recon_x[k], x[k]))]),
        Len(x) * ImageElems)

MSE_term(recon_x, x) ==
    SumSeq([k \in 1..Len(x) |-> Times(ImageElems, MseElem(recon_x[k], x[k]))])

\* 1 + logvar - mu^2 - exp(logvar) for one latent coordinate; logvar = lv*ln 2
KldElem(m, lv) ==
    [q |-> 4 * (1 - m * m - 2 ^ lv), h |-> 2 * lv, den |-> 1]

\* -0.5 * torch.sum(1 + logvar - mu.pow(2) - logvar.exp())
KLD_term(m, lv) ==
    NegHalf(SumSeq([k \in 1..Len(m) |-> Times(LatentDim, KldElem(m[k], lv[k]))]))

loss_function(recon_x, x, m, lv, rtype) ==
    IF rtype = "BCE"
    THEN Add(BCE_term(recon_x, x), KLD_term(m, lv))
    ELSE Add(MSE_term(recon_x, x), KLD_term(m, lv))

-----------------------------------------------------------------------------
(* Strings are sequences of characters *)

Digits == <<"0", "1", "2", "3", "4", "5", "6", "7", "8", "9">>

\* str(n) for n >= 0
RECURSIVE Str(_)
Str(n) == IF n < 10 THEN <<Digits[n + 1]>>
          ELSE Str(n \div 10) \o <<Digits[(n % 10) + 1]>>

\* "_{}_{}_{}_{}_".format(tm_year, tm_mon, tm_mday, tm_hour), line 118
TimeString(t) ==
    <<"_">> \o Str(t.tm_year) \o <<"_">> \o Str(t.tm_mon) \o <<"_">>
            \o Str(t.tm_mday) \o <<"_">> \o Str(t.tm_hour) \o <<"_">>

ReconPrefix == <<"r", "e", "s", "u", "l", "t", "s", "_", "c", "/", "r", "e", "c", "o", "n", "s", "t", "r", "u", "c", "t", "i", "o", "n", "_">>

SamplePrefix == <<"r", "e", "s", "u", "l", "t", "s", "_", "c", "/", "s", "a", "m", "p", "l", "e", "_">>

Png == <<".", "p", "n", "g">>

\* 'results_c/reconstruction_' + timestring + str(epoch) + '.png', line 110
ReconName(e) == ReconPrefix \o timestring \o Str(e) \o Png

\* variant: the name without the epoch number
SampleName_noepoch(e) == SamplePrefix \o timestring \o Png

\* 'results_c/sample_' + timestring + str(epoch) + '.png', line 126
SampleName(e) == SamplePrefix \o timestring \o Str(e) \o Png

-----------------------------------------------------------------------------
(* The inputs of a run *)

ReconLossKinds == {"BCE", "MSE"}

LogIntervals == {0, 1, 2}

Seeds == {0, 1}

PixelLevels == {0, 2}

Timestamps ==
    { [tm_year |-> 2019, tm_mon |-> 1, tm_mday |-> 11, tm_hour |-> 9],
      [tm_year |-> 2019, tm_mon |-> 11, tm_mday |-> 1, tm_hour |-> 23] }

\* What the network returns for every example of a batch, by generator state:
\* a reconstruction level, a latent mean and a log-variance.
ForwardOut(r) ==
    IF (r \div 2) % 2 = 0
    THEN [recon |-> 1, mu |-> 0, logvar |-> 0]
    ELSE [recon |-> 2, mu |-> 1, logvar |-> 1]

\* the generator after one draw
NextRng(r) == (5 * r + 3) % 8

\* len(train_loader): the number of batches of a DataLoader without drop_last
LoaderLen(n, b) == (n + b - 1) \div b

\* variant: a DataLoader with drop_last=True
BatchOf_droplast(a, it) ==
    IF Len(cifar_dataset) - it < a.batch_size THEN <<>>
    ELSE SubSeq(cifar_dataset, it + 1, it + a.batch_size)

\* the batch a DataLoader serves after `it` examples; <<>> when it is exhausted
BatchOf(a, it) ==
    SubSeq(cifar_dataset, it + 1, Min(it + a.batch_size, Len(cifar_dataset)))

Ev(op, e, k) == [op |-> op, epoch |-> e, idx |-> k]

Idle ==
    /\ failed = "none"
    /\ epoch = 0 /\ batch_idx = 0 /\ i = 0 /\ train_it = 0 /\ test_it = 0
    /\ training = TRUE
    /\ params = <<>> /\ grad = {}
    /\ loss = Zero
    /\ train_loss = Zero /\ test_loss = Zero
    /\ stdout = <<>> /\ files = <<>> /\ events = <<>> /\ batch_losses = <<>>

\* lines 13-50 and 117-118.  The images of the dataset are all alike, so the
\* order in which the shuffling loaders serve them cannot be seen; a loader
\* serves batches of batch_size examples and a shorter last one.
Init ==
    /\ args \in [batch_size : 1..MaxBatchSize, epochs : 0..MaxEpochs,
                 log_interval : LogIntervals, recon_loss : ReconLossKinds,
                 seed : Seeds]
    /\ \E t \in Timestamps : timestring = TimeString(t)
    /\ \E n \in 1..MaxDataset, v \in PixelLevels : cifar_dataset = [k \in 1..n |-> v]
    /\ rng = args.seed
    /\ pc = "main"
    /\ data = <<>> /\ recon_batch = <<>> /\ mu = <<>> /\ logvar = <<>>
    /\ recon_type = "none"
    /\ Idle

-----------------------------------------------------------------------------
(* Exceptions.  Nothing in the script catches one: it ends the run. *)

\* variant: the exception is caught and the statement run again
Raise_retry(kind) ==
    /\ failed' = kind
    /\ pc' = pc
    /\ UNCHANGED <<args, timestring, cifar_dataset, rng, epoch, batch_idx, i,
                   train_it, test_it, training, params, grad, data, recon_batch,
                   mu, logvar, loss, recon_type, train_loss, test_loss, stdout,
                   files, events, batch_losses>>

Raise(kind) ==
    /\ failed' = kind
    /\ pc' = "aborted"
    /\ UNCHANGED <<args, timestring, cifar_dataset, rng, epoch, batch_idx, i,
                   train_it, test_it, training, params, grad, data, recon_batch,
                   mu, logvar, loss, recon_type, train_loss, test_loss, stdout,
                   files, events, batch_losses>>

\* the statements that compute on a batch or write a file
Fallible ==
    {"forward", "loss", "backward", "t_forward", "t_loss", "decode", "s_save"}

\* a computation or a file write fails at the current statement
Fault ==
    /\ \/ pc \in Fallible
       \/ pc = "t_cmp" /\ i = 0
    /\ Raise("fault")

-----------------------------------------------------------------------------
(* __main__, lines 119-126 *)

\* variant: range(1, args.epochs + 2)
EnterEpoch_offbyone(a) ==
    /\ pc = "main"
    /\ epoch <= a.epochs
    /\ epoch' = epoch + 1
    /\ pc' = "train"
    /\ UNCHANGED <<args, timestring, cifar_dataset, rng, failed, batch_idx, i,
                   train_it, test_it, training, params, grad, data, recon_batch,
                   mu, logvar, loss, recon_type, train_loss, test_loss, stdout,
                   files, events, batch_losses>>

\* line 119: the next epoch of range(1, args.epochs + 1)
EnterEpoch(a) ==
    /\ pc = "main"
    /\ epoch < a.epochs
    /\ epoch' = epoch + 1
    /\ pc' = "train"
    /\ UNCHANGED <<args, timestring, cifar_dataset, rng, failed, batch_idx, i,
                   train_it, test_it, training, params, grad, data, recon_batch,
                   mu, logvar, loss, recon_type, train_loss, test_loss, stdout,
                   files, events, batch_losses>>

\* line 119: the range is exhausted
Finish(a) ==
    /\ pc = "main"
    /\ epoch >= a.epochs
    /\ pc' = "done"
    /\ UNCHANGED <<args, timestring, cifar_dataset, rng, failed, epoch, batch_idx,
                   i, train_it, test_it, training, params, grad, data, recon_batch,
                   mu, logvar, loss, recon_type, train_loss, test_loss, stdout,
                   files, events, batch_losses>>

\* lines 122-124: torch.randn(64, 128), model.decode(sample)
SampleDecode ==
    /\ pc = "decode"
    /\ rng' = NextRng(rng)
    /\ events' = Append(events, Ev("decode", epoch, 0))
    /\ pc' = "s_save"
    /\ UNCHANGED <<args, timestring, cifar_dataset, failed, epoch, batch_idx, i,
                   train_it, test_it, training, params, grad, data, recon_batch,
                   mu, logvar, loss, recon_type, train_loss, test_loss, stdout,
                   files, batch_losses>>

\* lines 125-126: save_image(sample.view(64, 3, 32, 32), ...)
SampleSave ==
    /\ pc = "s_save"
    /\ files' = Append(files, SampleName(epoch))
    /\ events' = Append(events, Ev("s_save", epoch, 0))
    /\ pc' = "main"
    /\ UNCHANGED <<args, timestring, cifar_dataset, rng, failed, epoch, batch_idx,
                   i, train_it, test_it, training, params, grad, data, recon_batch,
                   mu, logvar, loss, recon_type, train_loss, test_loss, stdout,
                   batch_losses>>

-----------------------------------------------------------------------------
(* train(epoch), lines 70-94 *)

\* variant: train() without model.train()
TrainMode_keep == training

\* model.train(), line 71
TrainMode == TRUE

\* variant: an accumulator that is not reset
TrainLossInit_carry == train_loss

\* train_loss = 0, line 72
TrainLossInit == Zero

\* lines 71-76: the call, up to the creation of train_loader's iterator
TrainBegin ==
    /\ pc = "train"
    /\ training' = TrainMode
    /\ train_loss' = TrainLossInit
    /\ batch_losses' = <<>>
    /\ batch_idx' = 0
    /\ train_it' = 0
    /\ pc' = "fetch"
    /\ UNCHANGED <<args, timestring, cifar_dataset, rng, failed, epoch, i, test_it,
                   params, grad, data, recon_batch, mu, logvar, loss, recon_type,
                   test_loss, stdout, files, events>>

\* lines 76-77: the next batch of train_loader, or the end of the loop
TrainFetch(a) ==
    /\ pc = "fetch"
    /\ IF BatchOf(a, train_it) = <<>>
       THEN /\ pc' = "report"
            /\ UNCHANGED <<data, train_it>>
       ELSE /\ data' = BatchOf(a, train_it)
            /\ train_it' = train_it + Len(BatchOf(a, train_it))
            /\ pc' = "zero_grad"
    /\ UNCHANGED <<args, timestring, cifar_dataset, rng, failed, epoch, batch_idx,
                   i, test_it, training, params, grad, recon_batch, mu, logvar,
                   loss, recon_type, train_loss, test_loss, stdout, files, events,
                   batch_losses>>

\* variant: train() without optimizer.zero_grad()
ClearedGrad_keep == grad

\* what optimizer.zero_grad() leaves in the .grad buffers
ClearedGrad == {}

\* line 78
ZeroGrad ==
    /\ pc = "zero_grad"
    /\ grad' = ClearedGrad
    /\ events' = Append(events, Ev("zero_grad", epoch, batch_idx))
    /\ pc' = "forward"
    /\ UNCHANGED <<args, timestring, cifar_dataset, rng, failed, epoch, batch_idx,
                   i, train_it, test_it, training, params, data, recon_batch, mu,
                   logvar, loss, recon_type, train_loss, test_loss, stdout, files,
                   batch_losses>>

\* recon_batch, mu, logvar = model(data): lines 79 and 103
Model ==
    /\ recon_batch' = [k \in 1..Len(data) |-> ForwardOut(rng).recon]
    /\ mu' = [k \in 1..Len(data) |-> ForwardOut(rng).mu]
    /\ logvar' = [k \in 1..Len(data) |-> ForwardOut(rng).logvar]
    /\ rng' = NextRng(rng)

\* line 79
Forward ==
    /\ pc = "forward"
    /\ Model
    /\ events' = Append(events, Ev("forward", epoch, batch_idx))
    /\ pc' = "loss"
    /\ UNCHANGED <<args, timestring, cifar_dataset, failed, epoch, batch_idx, i,
                   train_it, test_it, training, params, grad, data, loss,
                   recon_type, train_loss, test_loss, stdout, files, batch_losses>>

\* variant: recon_type=args.recon_loss
TrainReconType_flag(a) == a.recon_loss

\* the recon_type argument at line 80
TrainReconType(a) == "MSE"

\* line 80
TrainLoss(a) ==
    /\ pc = "loss"
    /\ recon_type' = TrainReconType(a)
    /\ loss' = loss_function(recon_batch, data, mu, logvar, TrainReconType(a))
    /\ batch_losses' = Append(batch_losses, loss')
    /\ events' = Append(events, Ev("loss", epoch, batch_idx))
    /\ pc' = "backward"
    /\ UNCHANGED <<args, timestring, cifar_dataset, rng, failed, epoch, batch_idx,
                   i, train_it, test_it, training, params, grad, data, recon_batch,
                   mu, logvar, train_loss, test_loss, stdout, files>>

\* line 81: loss.backward() adds the batch's gradients to the .grad buffers
Backward ==
    /\ pc = "backward"
    /\ grad' = grad \cup {<<epoch, batch_idx>>}
    /\ events' = Append(events, Ev("backward", epoch, batch_idx))
    /\ pc' = "accum"
    /\ UNCHANGED <<args, timestring, cifar_dataset, rng, failed, epoch, batch_idx,
                   i, train_it, test_it, training, params, data, recon_batch, mu,
                   logvar, loss, recon_type, train_loss, test_loss, stdout, files,
                   batch_losses>>

\* line 82
Accumulate ==
    /\ pc = "accum"
    /\ train_loss' = Add(train_loss, loss)
    /\ events' = Append(events, Ev("accum", epoch, batch_idx))
    /\ pc' = "step"
    /\ UNCHANGED <<args, timestring, cifar_dataset, rng, failed, epoch, batch_idx,
                   i, train_it, test_it, training, params, grad, data, recon_batch,
                   mu, logvar, loss, recon_type, test_loss, stdout, files,
                   batch_losses>>

\* line 83: optimizer.step() applies the .grad buffers to the parameters
OptimizerStep ==
    /\ pc = "step"
    /\ params' = Append(params, [grad |-> grad, training |-> training])
    /\ events' = Append(events, Ev("step", epoch, batch_idx))
    /\ pc' = "log"
    /\ UNCHANGED <<args, timestring, cifar_dataset, rng, failed, epoch, batch_idx,
                   i, train_it, test_it, training, grad, data, recon_batch, mu,
                   logvar, loss, recon_type, train_loss, test_loss, stdout, files,
                   batch_losses>>

\* the progress line of lines 88-91
ProgressLine(a) ==
    [kind |-> "progress", epoch |-> epoch,
     seen |-> batch_idx * Len(data), total |-> Len(cifar_dataset),
     pct |-> <<100 * batch_idx, LoaderLen(Len(cifar_dataset), a.batch_size)>>,
     value |-> Div(loss, Len(data))]

\* lines 87-91, and the step of enumerate to the next index
Log(a) ==
    /\ pc = "log"
    /\ IF a.log_interval = 0
       THEN Raise("zero_division")
       ELSE /\ stdout' = IF batch_idx % a.log_interval = 0
                         THEN Append(stdout, ProgressLine(a))
                         ELSE stdout
            /\ batch_idx' = batch_idx + 1
            /\ pc' = "fetch"
            /\ UNCHANGED <<args, timestring, cifar_dataset, rng, failed, epoch, i,
                           train_it, test_it, training, params, grad, data,
                           recon_batch, mu, logvar, loss, recon_type, train_loss,
                           test_loss, files, events, batch_losses>>

\* lines 93-94
TrainReport ==
    /\ pc = "report"
    /\ stdout' = Append(stdout, [kind |-> "train_avg", epoch |-> epoch,
                                 value |-> Div(train_loss, Len(cifar_dataset))])
    /\ pc' = "test"
    /\ UNCHANGED <<args, timestring, cifar_dataset, rng, failed, epoch, batch_idx,
                   i, train_it, test_it, training, params, grad, data, recon_batch,
                   mu, logvar, loss, recon_type, train_loss, test_loss, files,
                   events, batch_losses>>

-----------------------------------------------------------------------------
(* test(epoch), lines 97-113 *)

\* lines 98-101: the call, up to the creation of test_loader's iterator
TestBegin ==
    /\ pc = "test"
    /\ training' = FALSE
    /\ test_loss' = Zero
    /\ batch_losses' = <<>>
    /\ i' = 0
    /\ test_it' = 0
    /\ pc' = "t_fetch"
    /\ UNCHANGED <<args, timestring, cifar_dataset, rng, failed, epoch, batch_idx,
                   train_it, params, grad, data, recon_batch, mu, logvar, loss,
                   recon_type, train_loss, stdout, files, events>>

\* lines 101-102: the next batch of test_loader, or the end of the loop
TestFetch(a) ==
    /\ pc = "t_fetch"
    /\ IF BatchOf(a, test_it) = <<>>
       THEN /\ pc' = "t_report"
            /\ UNCHANGED <<data, test_it>>
       ELSE /\ data' = BatchOf(a, test_it)
            /\ test_it' = test_it + Len(BatchOf(a, test_it))
            /\ pc' = "t_forward"
    /\ UNCHANGED <<args, timestring, cifar_dataset, rng, failed, epoch, batch_idx,
                   i, train_it, training, params, grad, recon_batch, mu, logvar,
                   loss, recon_type, train_loss, test_loss, stdout, files, events,
                   batch_losses>>

\* line 103
TestForward ==
    /\ pc = "t_forward"
    /\ Model
    /\ events' = Append(events, Ev("t_forward", epoch, i))
    /\ pc' = "t_loss"
    /\ UNCHANGED <<args, timestring, cifar_dataset, failed, epoch, batch_idx, i,
                   train_it, test_it, training, params, grad, data, loss,
                   recon_type, train_loss, test_loss, stdout, files, batch_losses>>

\* the recon_type argument at line 104
TestReconType(a) == "MSE"

\* line 104
TestLoss(a) ==
    /\ pc = "t_loss"
    /\ recon_type' = TestReconType(a)
    /\ test_loss' = Add(test_loss, loss_function(recon_batch, data, mu, logvar,
                                                 TestReconType(a)))
    /\ batch_losses' = Append(batch_losses,
           loss_function(recon_batch, data, mu, logvar, TestReconType(a)))
    /\ events' = Append(events, Ev("t_loss", epoch, i))
    /\ pc' = "t_cmp"
    /\ UNCHANGED <<args, timestring, cifar_dataset, rng, failed, epoch, batch_idx,
                   i, train_it, test_it, training, params, grad, data, recon_batch,
                   mu, logvar, loss, train_loss, stdout, files>>

\* recon_batch.view(args.batch_size, 3, 32, 32) is defined when the element
\* counts agree (line 108)
ViewFits(a) == Len(recon_batch) * ImageElems = a.batch_size * 3 * 32 * 32

\* lines 105-110, and the step of enumerate to the next index
TestCompare(a) ==
    /\ pc = "t_cmp"
    /\ IF i = 0 /\ ~ViewFits(a)
       THEN Raise("view_shape")
       ELSE /\ files' = IF i = 0 THEN Append(files, ReconName(epoch)) ELSE files
            /\ events' = IF i = 0 THEN Append(events, Ev("t_save", epoch, i))
                         ELSE events
            /\ i' = i + 1
            /\ pc' = "t_fetch"
            /\ UNCHANGED <<args, timestring, cifar_dataset, rng, failed, epoch,
                           batch_idx, train_it, test_it, training, params, grad,
                           data, recon_batch, mu, logvar, loss, recon_type,
                           train_loss, test_loss, stdout, batch_losses>>

\* lines 112-113
TestReport ==
    /\ pc = "t_report"
    /\ test_loss' = Div(test_loss, Len(cifar_dataset))
    /\ stdout' = Append(stdout, [kind |-> "test_avg", epoch |-> epoch,
                                 value |-> test_loss'])
    /\ pc' = "decode"
    /\ UNCHANGED <<args, timestring, cifar_dataset, rng, failed, epoch, batch_idx,
                   i, train_it, test_it, training, params, grad, data, recon_batch,
                   mu, logvar, loss, recon_type, train_loss, files, events,
                   batch_losses>>

-----------------------------------------------------------------------------
(* The run *)

Next ==
    \/ EnterEpoch(args)
    \/ Finish(args)
    \/ TrainBegin
    \/ TrainFetch(args)
    \/ ZeroGrad
    \/ Forward
    \/ TrainLoss(args)
    \/ Backward
    \/ Accumulate
    \/ OptimizerStep
    \/ Log(args)
    \/ TrainReport
    \/ TestBegin
    \/ TestFetch(args)
    \/ TestForward
    \/ TestLoss(args)
    \/ TestCompare(args)
    \/ TestReport
    \/ SampleDecode
    \/ SampleSave
    \/ Fault

Spec == Init /\ [][Next]_vars

-----------------------------------------------------------------------------
(* loss_function on its own: the arguments are drawn, then the call is made *)

Levels == {0, 1, 2}

Means == {0, 1}

LogVars == {0, 1}

InitLoss ==
    /\ args = [batch_size |-> 1, epochs |-> 0, log_interval |-> 1,
               recon_loss |-> "BCE", seed |-> 0]
    /\ timestring = <<>>
    /\ cifar_dataset = <<>>
    /\ rng = 0
    /\ pc = "call"
    /\ \E n \in 1..MaxExamples :
          /\ data \in [1..n -> Levels]
          /\ recon_batch \in [1..n -> Levels]
          /\ mu \in [1..n -> Means]
          /\ logvar \in [1..n -> LogVars]
    /\ recon_type \in ReconLossKinds
    /\ Idle

CallLoss ==
    /\ pc = "call"
    /\ loss' = loss_function(recon_batch, data, mu, logvar, recon_type)
    /\ pc' = "returned"
    /\ UNCHANGED <<args, timestring, cifar_dataset, rng, failed, epoch, batch_idx,
                   i, train_it, test_it, training, params, grad, data, recon_batch,
                   mu, logvar, recon_type, train_loss, test_loss, stdout, files,
                   events, batch_losses>>

NextLoss == CallLoss

SpecLoss == InitLoss /\ [][NextLoss]_vars

-----------------------------------------------------------------------------
(* Vocabulary of the properties *)

NumExamples == Len(cifar_dataset)

\* the least number of batches of size b that hold n examples
CeilDiv(n, b) == CHOOSE c \in 0..n : c * b >= n /\ (c - 1) * b < n

TrainOrder == <<"zero_grad", "forward", "loss", "backward", "accum", "step">>

TrainOps == {TrainOrder[k] : k \in 1..Len(TrainOrder)}

TrainPcs == {"fetch", "zero_grad", "forward", "loss", "backward", "accum",
             "step", "log", "report"}

TestPcs == {"t_fetch", "t_forward", "t_loss", "t_cmp", "t_report"}

SamplePcs == {"decode", "s_save"}

IsTrainEvent(ev) == ev.op \in TrainOps

TrainEvents == SelectSeq(events, IsTrainEvent)

CountEvents(op, e) ==
    Cardinality({k \in 1..Len(events) : events[k].op = op /\ events[k].epoch = e})

CountLines(kind, e) ==
    Cardinality({k \in 1..Len(stdout) : stdout[k].kind = kind /\ stdout[k].epoch = e})

CountFiles(name) == Cardinality({k \in 1..Len(files) : files[k] = name})

\* train(e) has returned
TrainReturned(e) ==
    \/ e < epoch
    \/ e = epoch /\ pc \in {"test"} \cup TestPcs \cup SamplePcs \cup {"main", "done"}

\* test(e) is past its first batch, or has ended
TestFirstBatchOver(e) ==
    \/ e < epoch
    \/ /\ e = epoch
       /\ \/ pc \in {"t_fetch", "t_forward", "t_loss", "t_cmp"} /\ i >= 1
          \/ pc \in {"t_report", "main", "done"} \cup SamplePcs
          \/ pc = "aborted" /\ failed = "view_shape"

\* the sampling step of epoch e is over
EpochOver(e) == e < epoch \/ (e = epoch /\ pc \in {"main", "done"})

IsPrefix(s, t) == Len(s) <= Len(t) /\ s = SubSeq(t, 1, Len(s))

Front(s) == SubSeq(s, 1, Len(s) - 1)

-----------------------------------------------------------------------------
(* C1: in train(), the statements of a batch run in the order zero_grad,     *)
(* forward, loss, backward, accumulate, optimizer step; the statements of    *)
(* one batch are not interleaved with those of another; and at every         *)
(* optimizer step the gradient buffers hold the gradients of exactly the     *)
(* current batch.                                                            *)
C1_BatchOrderAndFreshGradients ==
    LET te == TrainEvents
        batch(k) == <<te[k].epoch, te[k].idx>>
    IN  /\ \A k \in 1..Len(te) :
              /\ te[k].op = TrainOrder[((k - 1) % 6) + 1]
              /\ (k - 1) % 6 # 0 => batch(k) = batch(k - 1)
        /\ \A g, h \in 1..((Len(te) + 5) \div 6) :
              g < h => batch(6 * g - 5) # batch(6 * h - 5)
        /\ pc = "step" => grad = {<<epoch, batch_idx>>}
        /\ Len(params) = Len(te) \div 6
        /\ \A j \in 1..Len(params) : params[j].grad = {batch(6 * j)}

C1_Witness ==
    /\ pc = "log"
    /\ epoch = 2
    /\ batch_idx >= 1
    /\ Len(params) >= 3
    /\ params[Len(params)].grad = {<<epoch, batch_idx>>}

(* C2: the parameters change only in the optimizer step of train(), with the *)
(* model in training mode; no step of test() or of the sampling step changes *)
(* them.                                                                     *)
C2_ParamsOnlyByTrainStep ==
    [][ /\ params' # params => (pc = "step" /\ training)
        /\ pc \in {"test"} \cup TestPcs \cup SamplePcs => params' = params
        /\ ~training => params' = params ]_vars

C2_Witness ==
    /\ pc = "main"
    /\ epoch = 2
    /\ ~training
    /\ CountEvents("t_forward", 2) >= 2
    /\ CountEvents("decode", 2) = 1
    /\ Len(params) >= 2

(* C3: for a non-empty dataset and any batch size, test(e) writes exactly    *)
(* one reconstruction file, on its first batch and on no later one, and      *)
(* after test(e) exactly one sample file is written, both named after e.     *)
(* Runs ended by a failed computation or file write are set aside.           *)
C3_OneReconAndOneSamplePerEpoch ==
    failed # "fault" =>
        \A e \in 1..epoch :
            /\ TestFirstBatchOver(e) => CountFiles(ReconName(e)) = 1
            /\ EpochOver(e) => CountFiles(SampleName(e)) = 1

(* C4: a call of train() that returns has run exactly ceil(N/B) cycles of    *)
(* forward, backward and optimizer step and has printed exactly one          *)
(* "Average loss" line, none of it before the last cycle; with N = 4 and     *)
(* B = 4 that is one cycle.                                                  *)
C4_CyclesAndOneAverageLine ==
    \A e \in 1..epoch :
        /\ TrainReturned(e) =>
              /\ CountEvents("forward", e) = CeilDiv(NumExamples, args.batch_size)
              /\ CountEvents("backward", e) = CeilDiv(NumExamples, args.batch_size)
              /\ CountEvents("step", e) = CeilDiv(NumExamples, args.batch_size)
              /\ CountLines("train_avg", e) = 1
              /\ (NumExamples = 4 /\ args.batch_size = 4) =>
                    CountEvents("step", e) = 1
        /\ (e = epoch /\ pc \in TrainPcs \cup {"train"}) =>
              CountLines("train_avg", e) = 0

C4_Witness ==
    /\ pc = "test"
    /\ epoch = 1
    /\ NumExamples = 3
    /\ args.batch_size = 2
    /\ CountEvents("step", 1) = 2


(* C5: loss_function is the reconstruction term plus the KL term, both sums: *)
(* for n all-zero images, a reconstruction of 0.5 everywhere, mu = 0 and     *)
(* logvar = 0, the call with recon_type 'MSE' has reconstruction term        *)
(* n*3072*0.25, KL term 0 and total n*3072*0.25, which is 1536 for n = 2.    *)
(* (Values are in quarters: q = 4 * value.)                                  *)
C5_LossOfHalfGreyOnBlack ==
    ( /\ pc = "returned"
      /\ recon_type = "MSE"
      /\ \A k \in 1..Len(data) :
            data[k] = 0 /\ recon_batch[k] = 1 /\ mu[k] = 0 /\ logvar[k] = 0 )
    => /\ MSE_term(recon_batch, data) = [q |-> Len(data) * 3072, h |-> 0, den |-> 1]
       /\ KLD_term(mu, logvar) = Zero
       /\ loss = [q |-> Len(data) * 3072, h |-> 0, den |-> 1]
       /\ Len(data) = 2 => loss = [q |-> 4 * 1536, h |-> 0, den |-> 1]

C5_Witness ==
    /\ pc = "returned"
    /\ recon_type = "MSE"
    /\ Len(data) = 2
    /\ \A k \in 1..2 :
          data[k] = 0 /\ recon_batch[k] = 1 /\ mu[k] = 0 /\ logvar[k] = 0
    /\ loss = [q |-> 6144, h |-> 0, den |-> 1]

\* args with the other value of --recon_loss
Flip(a) == [a EXCEPT !.recon_loss = IF @ = "BCE" THEN "MSE" ELSE "BCE"]

\* a step of the run whose command line differs in --recon_loss alone
OtherRunStep ==
    \/ EnterEpoch(Flip(args))
    \/ Finish(Flip(args))
    \/ TrainBegin
    \/ TrainFetch(Flip(args))
    \/ ZeroGrad
    \/ Forward
    \/ TrainLoss(Flip(args))
    \/ Backward
    \/ Accumulate
    \/ OptimizerStep
    \/ Log(Flip(args))
    \/ TrainReport
    \/ TestBegin
    \/ TestFetch(Flip(args))
    \/ TestForward
    \/ TestLoss(Flip(args))
    \/ TestCompare(Flip(args))
    \/ TestReport
    \/ SampleDecode
    \/ SampleSave
    \/ Fault

C7_FailureIsFatal ==
    /\ [](failed # "none" <=> pc = "aborted")
    /\ [][failed = "none"]_vars

C7_Witness ==
    /\ pc = "aborted"
    /\ failed = "fault"
    /\ epoch = 1
    /\ args.epochs = 2
    /\ CountEvents("forward", 1) = 1
    /\ CountEvents("loss", 1) = 0
    /\ NumExamples > args.batch_size

(* C8: the accumulators are per call.  train_loss and test_loss are 0 when   *)
(* the call starts, after k batches they are the sum of the losses of those  *)
(* k batches of this call, and each call that returns has printed one        *)
(* average line, at its end, with that sum divided by the dataset size.      *)
C8_AccumulatorPerCall ==
    /\ (pc = "fetch" /\ batch_idx = 0) => train_loss = Zero
    /\ (pc = "t_fetch" /\ i = 0) => test_loss = Zero
    /\ pc \in {"fetch", "zero_grad", "forward", "loss", "report"} =>
          /\ Len(batch_losses) = batch_idx
          /\ train_loss = SumSeq(batch_losses)
    /\ pc \in {"backward", "accum"} =>
          /\ Len(batch_losses) = batch_idx + 1
          /\ train_loss = SumSeq(Front(batch_losses))
    /\ pc \in {"step", "log"} =>
          /\ Len(batch_losses) = batch_idx + 1
          /\ train_loss = SumSeq(batch_losses)
    /\ pc \in {"t_fetch", "t_forward", "t_loss"} =>
          /\ Len(batch_losses) = i
          /\ test_loss = SumSeq(batch_losses)
    /\ pc = "t_cmp" =>
          /\ Len(batch_losses) = i + 1
          /\ test_loss = SumSeq(batch_losses)
    /\ pc = "test" =>
          stdout[Len(stdout)] =
              [kind |-> "train_avg", epoch |-> epoch,
               value |-> Div(SumSeq(batch_losses), NumExamples)]
    /\ pc = "decode" =>
          stdout[Len(stdout)] =
              [kind |-> "test_avg", epoch |-> epoch,
               value |-> Div(SumSeq(batch_losses), NumExamples)]
    /\ \A e \in 1..(IF failed = "none" THEN epoch ELSE epoch - 1) :
          /\ CountLines("train_avg", e) = IF TrainReturned(e) THEN 1 ELSE 0
          /\ CountLines("test_avg", e) =
                IF e < epoch \/ pc \in SamplePcs \cup {"main", "done"}
                THEN 1 ELSE 0

C8_Witness ==
    /\ pc = "decode"
    /\ epoch = 2
    /\ Len(batch_losses) = 2
    /\ batch_losses[1] # batch_losses[2]
    /\ test_loss = Div(Add(batch_losses[1], batch_losses[2]), NumExamples)

(* C9: no two save_image calls of a run have the same file name.             *)
C9_FileNamesDistinct ==
    \A j, k \in 1..Len(files) : j # k => files[j] # files[k]

C9_Witness ==
    /\ pc = "done"
    /\ Len(files) = 4
    /\ files[2] = SampleName(1)
    /\ files[3] = ReconName(2)

\* the statements of the training batches b.. of epoch e, n batches in all
RECURSIVE TrainPart(_, _, _)
TrainPart(e, b, n) ==
    IF b >= n THEN <<>>
    ELSE [k \in 1..6 |-> Ev(TrainOrder[k], e, b)] \o TrainPart(e, b + 1, n)

\* the statements of the evaluation batches b.. of epoch e
RECURSIVE TestPart(_, _, _)
TestPart(e, b, n) ==
    IF b >= n THEN <<>>
    ELSE <<Ev("t_forward", e, b), Ev("t_loss", e, b)>>
         \o (IF b = 0 THEN <<Ev("t_save", e, b)>> ELSE <<>>)
         \o TestPart(e, b + 1, n)

\* train(e), test(e), sample(e), ..., train(last), test(last), sample(last)
RECURSIVE ExpectedRun(_, _, _)
ExpectedRun(e, last, n) ==
    IF e > last THEN <<>>
    ELSE TrainPart(e, 0, n) \o TestPart(e, 0, n)
         \o <<Ev("decode", e, 0), Ev("s_save", e, 0)>>
         \o ExpectedRun(e + 1, last, n)

(* C10: without a failure the run is train(1), test(1), sample(1), ...,      *)
(* train(E), test(E), sample(E): what has been executed is always a prefix   *)
(* of that sequence, the run cannot stop before its end, and it is done      *)
(* exactly when the whole sequence has been executed (nothing for E = 0).    *)
C10_PhaseSequence ==
    failed = "none" =>
        LET expected == ExpectedRun(1, args.epochs,
                                    CeilDiv(NumExamples, args.batch_size))
        IN  /\ IsPrefix(events, expected)
            /\ epoch <= args.epochs
            /\ pc = "done" => events = expected
            /\ pc # "done" => ENABLED Next
            /\ args.epochs = 0 => events = <<>>

C10_Witness ==
    /\ pc = "done"
    /\ args.epochs = 2
    /\ NumExamples = 4
    /\ args.batch_size = 2
    /\ Len(events) = 2 * (12 + 5 + 2)

=============================================================================
